---- MODULE Spec2Model ----
(***************************************************************************)
(* Model of the calendar viewer: the access-token store                    *)
(* (src/lib/stores/auth.ts), the calendar fetcher (src/lib/calendar.ts)    *)
(* and the Calendar component (fetch, filter, display state, CSV and       *)
(* print exports).                                                         *)
(*                                                                         *)
(* Conventions.                                                            *)
(*   - A JavaScript string whose characters matter (search query, event    *)
(*     title, description, location) is a sequence of one-character        *)
(*     strings; "" is <<>>.                                                *)
(*   - An opaque string (token, error message, event type, selector) is a  *)
(*     TLA+ string.                                                        *)
(*   - An optional value (null / undefined / absent property) is a         *)
(*     sequence of length at most one: None = <<>>, Some(v) = <<v>>.       *)
(*   - An instant is a number of hours since the epoch; a 'yyyy-MM-dd'     *)
(*     string is the number of its day.                                    *)
(*                                                                         *)
(* An action is one handler run to its end or to its await, together with  *)
(* the reactive blocks the framework runs for the variables it assigned.   *)
(* The specifications of the component alone take the token store as      *)
(* written at any moment between two handlers; SpecPage puts the component *)
(* behind the login and logout handlers of the page (+page.svelte).        *)
(***************************************************************************)
EXTENDS Integers, Sequences, FiniteSets, TLC

VARIABLES
    pc,              \* position: component life cycle, or phase of the filter harness
    events,          \* Calendar: let events
    filteredEvents,  \* Calendar: let filteredEvents
    loading,         \* Calendar: let loading
    error,           \* Calendar: let error (None = null)
    startDate,       \* Calendar: let startDate (None = '')
    endDate,         \* Calendar: let endDate (None = '')
    searchQuery,     \* Calendar: let searchQuery
    selectedType,    \* Calendar: let selectedType
    accessToken,     \* auth store: accessToken (None = null)
    now,             \* the wall clock (Date.now())
    zone,            \* the browser's time zone, hours east of UTC
    calls,           \* getCalendarEvents calls that have not settled yet
    issued,          \* number of getCalendarEvents calls the instance made so far
    requests,        \* number of requests it sent to the calendar endpoint so far
    request,         \* the last request sent to the endpoint (None before any)
    returned,        \* the list the last successful getCalendarEvents call returned
    download,        \* the file the last exportToCSV offered (None before any)
    popup,           \* what the last window.open gave: "none" yet, "blocked", "opened"
    written,         \* the HTML written to the last window opened (None: nothing)
    printed,         \* whether print() was called on the last window opened
    selectedEvent,   \* Calendar: let selectedEvent (None = null)
    showModal,       \* Calendar: let showModal
    storage,         \* localStorage: the 'calendar_access_token' entry (None: no entry)
    user,            \* auth store: whether user holds a signed-in user
    initialLoginInProgress,  \* page: let initialLoginInProgress
    signIns,         \* signInWithPopup calls that have not settled yet
    signOuts,        \* signOut calls that have not settled yet
    latest           \* history: how the call issued last has ended

\* what the exporters hand to the browser
exports == <<download, popup, written, printed>>

\* the details modal of the component
modal == <<selectedEvent, showModal>>

\* the state of the page around the component, the token store apart
page == <<storage, user, initialLoginInProgress, signIns, signOuts>>

vars == <<pc, events, filteredEvents, loading, error, startDate, endDate,
          searchQuery, selectedType, accessToken, now, zone, calls,
          issued, requests, request, returned, download, popup, written,
          printed, selectedEvent, showModal, storage, user,
          initialLoginInProgress, signIns, signOuts, latest>>

----------------------------------------------------------------------------
(* Bounds of the model *)

MaxLen == 2          \* longest event list given to the filter and the exporters
MaxQueryLen == 2     \* longest search query given to the filter harness
MaxFetches == 3      \* getCalendarEvents calls explored per run
MaxNow == 1          \* days the clock may advance
TickHours == 24      \* hours the clock advances in one step
MaxSignOuts == 2     \* signOut calls that may be outstanding at once

----------------------------------------------------------------------------
(* Optional values *)

None == <<>>
Some(v) == <<v>>

----------------------------------------------------------------------------
(* JavaScript string operations used by the filter *)

Chars == {"a", "A", "b", " "}

LowerChar(c) == CASE c = "A" -> "a"
                  [] c = "B" -> "b"
                  [] OTHER -> c

toLowerCase(s) == [i \in DOMAIN s |-> LowerChar(s[i])]

IsWhiteSpace(c) == c = " "

RECURSIVE trimStart(_)
trimStart(s) == IF s # <<>> /\ IsWhiteSpace(Head(s)) THEN trimStart(Tail(s)) ELSE s

RECURSIVE trimEnd(_)
trimEnd(s) == IF s # <<>> /\ IsWhiteSpace(s[Len(s)])
              THEN trimEnd(SubSeq(s, 1, Len(s) - 1))
              ELSE s

trim(s) == trimEnd(trimStart(s))

\* hay.indexOf(needle, from): first position >= i where needle occurs, 0 if none
RECURSIVE IndexFrom(_, _, _)
IndexFrom(hay, needle, i) ==
    IF i + Len(needle) - 1 > Len(hay) THEN 0
    ELSE IF \A k \in 1..Len(needle) : hay[i + k - 1] = needle[k] THEN i
    ELSE IndexFrom(hay, needle, i + 1)

includes(hay, needle) == IndexFrom(hay, needle, 1) # 0

----------------------------------------------------------------------------
(* Events and the event filter *)

Ev(id, s, d, l, t) ==
    [id |-> id, summary |-> s, description |-> d, location |-> l, eventType |-> t,
     start |-> None, end |-> None]

\* the selectors offered by the type <select>
eventTypes == {"all", "default", "fromGmail", "birthday", "workingLocation"}

\* field.?toLowerCase().includes(query.toLowerCase()), as a truth value
FieldIncludes(field, query) ==
    /\ field # None
    /\ includes(toLowerCase(field[1]), toLowerCase(query))

matchesSearch_CaseSensitive(event, query) ==
    \/ trim(query) = <<>>
    \/ event.summary # None /\ includes(event.summary[1], query)
    \/ event.description # None /\ includes(event.description[1], query)
    \/ event.location # None /\ includes(event.location[1], query)

matchesSearch_NoBlankRule(event, query) ==
    \/ FieldIncludes(event.summary, query)
    \/ FieldIncludes(event.description, query)
    \/ FieldIncludes(event.location, query)

matchesSearch(event, query) ==
    \/ trim(query) = <<>>
    \/ FieldIncludes(event.summary, query)
    \/ FieldIncludes(event.description, query)
    \/ FieldIncludes(event.location, query)

\* !event.eventType
NoEventType(event) == event.eventType = None \/ event.eventType = Some("")

matchesType_NoDefaultRule(event, type) ==
    \/ type = "all"
    \/ event.eventType = Some(type)

matchesType(event, type) ==
    \/ type = "all"
    \/ event.eventType = Some(type)
    \/ NoEventType(event) /\ type = "default"

RECURSIVE Reverse(_)
Reverse(s) == IF s = <<>> THEN <<>> ELSE Append(Reverse(Tail(s)), Head(s))

Keep(event, query, type) == matchesSearch(event, query) /\ matchesType(event, type)

filterEvents_Unshift(evs, query, type) ==
    Reverse(SelectSeq(evs, LAMBDA e : Keep(e, query, type)))

filterEvents_SkipFirst(evs, query, type) ==
    IF evs = <<>> THEN <<>>
    ELSE SelectSeq(Tail(evs), LAMBDA e : Keep(e, query, type))

\* the list filterEvents() assigns to filteredEvents
filterEvents(evs, query, type) ==
    SelectSeq(evs, LAMBDA e : Keep(e, query, type))

----------------------------------------------------------------------------
(* Inputs of the filter harness *)

RECURSIVE StringsUpTo(_)
StringsUpTo(n) ==
    IF n = 0 THEN {<<>>}
    ELSE LET shorter == StringsUpTo(n - 1)
         IN  shorter \cup {Append(s, c) : s \in shorter, c \in Chars}

EventPool ==
    { Ev("e1", Some(<<"A", "b">>), None, None, None),
      Ev("e2", None, Some(<<"b", "A">>), None, Some("default")),
      Ev("e3", None, None, Some(<<"a", " ">>), Some("birthday")),
      Ev("e4", None, None, None, Some("focusTime")),
      Ev("e5", Some(<<>>), None, Some(<<"b">>), Some("fromGmail")),
      Ev("e6", Some(<<"a">>), Some(<<"A">>), Some(<<"A", "b">>), None),
      Ev("e7", Some(<<" ">>), Some(<<"a", "b">>), None, Some("workingLocation")) }

RECURSIVE ListsUpTo(_, _)
ListsUpTo(S, n) ==
    IF n = 0 THEN {<<>>}
    ELSE LET shorter == ListsUpTo(S, n - 1)
         IN  shorter \cup {Append(l, e) : l \in shorter, e \in S}

----------------------------------------------------------------------------
(* Dates *)

HoursPerDay == 24
ThirtyDays == 30 * HoursPerDay      \* 30 * 24 * 60 * 60 * 1000 ms, in hours

\* the zone offsets (hours east of UTC) explored: the browser runs in UTC
TimeZones == {0}

\* format(instant, 'yyyy-MM-dd'): the calendar day of the instant in local time
FormatDay(instant, offset) == (instant + offset) \div HoursPerDay

\* new Date('yyyy-MM-dd'): the instant of UTC midnight of that day
ParseDay(day) == day * HoursPerDay

\* the values a date <input> can be given: '' or a day
DateInputs == {None, Some(0), Some(1)}

----------------------------------------------------------------------------
(* The token store and the calendar fetcher *)

\* what localStorage.getItem('calendar_access_token') may give at start-up
TokenValues == {None, Some(""), Some("ya29.token")}

NoToken_NullOnly(token) == token = None

\* !token
NoToken(token) == token = None \/ token = Some("")

NoTokenMessage == "No access token available"
FallbackMessage == "Failed to fetch calendar events"
\* Messages of the errors the platform raises, not this code: the TypeError
\* of a fetch that fails, and the SyntaxError of response.json() on a body that
\* is not JSON, whose text depends on the body and on the engine.
NetworkFailureMessage == "Failed to fetch"
JsonSyntaxMessages ==
    {"Unexpected token '<', \"<html>\" is not valid JSON",
     "Unexpected end of JSON input"}

Value(items) == [ok |-> TRUE, value |-> items, message |-> ""]
Failure(message) == [ok |-> FALSE, value |-> <<>>, message |-> message]

\* What the endpoint may answer.  fetch: the fetch promise resolved or rejected;
\* ok: response.ok; body: what response.json() finds ("object": a JSON object,
\* "invalid": not JSON); message: error.message of the object, and for a body
\* that is not JSON the message of the SyntaxError response.json() throws;
\* items: items of the object.
Response(fetch, ok, body, message, items) ==
    [fetch |-> fetch, ok |-> ok, body |-> body, message |-> message, items |-> items]

\* what is known of a response when the fetch promise settles: whether it
\* resolved, and response.ok
Arrival(resp) == [fetch |-> resp.fetch, ok |-> resp.ok]
Arrivals(responses) == {Arrival(resp) : resp \in responses}

ResponseLists ==
    { <<>>,
      << Ev("e1", Some(<<"A", "b">>), None, None, None),
         Ev("e2", None, Some(<<"b", "A">>), None, Some("default")) >>,
      << Ev("e3", None, None, Some(<<"a", " ">>), Some("birthday")),
         Ev("e1", Some(<<"A", "b">>), None, None, None) >> }

Responses ==
    {Response("rejected", FALSE, "invalid", None, None)}
    \cup {Response("resolved", TRUE, "object", None, Some(l)) : l \in ResponseLists}
    \cup {Response("resolved", TRUE, "object", None, None)}
    \cup {Response("resolved", ok, "invalid", Some(m), None) :
              ok \in BOOLEAN, m \in JsonSyntaxMessages}
    \cup {Response("resolved", FALSE, "object", m, None) :
              m \in {None, Some(""), Some("Invalid Credentials")}}

\* errorData.error?.message || 'Failed to fetch calendar events'
ErrorMessageOf(message) ==
    IF message = None \/ message = Some("") THEN FallbackMessage ELSE message[1]

\* data.items || []
ItemsOf(items) == IF items = None THEN <<>> ELSE items[1]

\* how one getCalendarEvents call ends once the endpoint has answered
getCalendarEventsResult(resp) ==
    IF resp.fetch = "rejected" THEN Failure(NetworkFailureMessage)
    ELSE IF ~resp.ok
         THEN IF resp.body = "invalid" THEN Failure(resp.message[1])
              ELSE Failure(ErrorMessageOf(resp.message))
    ELSE IF resp.body = "invalid" THEN Failure(resp.message[1])
    ELSE Value(ItemsOf(resp.items))

----------------------------------------------------------------------------
(* The Calendar component *)

\* what the user may type into the search box
TypedQueries == {<<>>, <<"A", " ">>}

\* the selectors the user picks in the component runs
PickedTypes == {"all", "birthday"}

\* The history variable latest is kept by the specifications that study the
\* order in which the calls end: there it is Followed(None) until the call
\* issued last has ended and Followed(Some(result)) from then on.  The other
\* specifications leave it at NotFollowed.
NotFollowed == None
Followed(outcome) == Some(outcome)

\* the values the page gives the store: a credential's token, or null
StoredTokens == {None, Some("ya29.token")}

\* the request of getCalendarEvents(startDate ? new Date(startDate) : undefined,
\* endDate ? new Date(endDate) : undefined) made with token at instant clock
Request(token, start, end, clock) ==
    [token |-> token,
     timeMin |-> IF start # None THEN ParseDay(start[1]) ELSE clock,
     timeMax |-> IF end # None THEN ParseDay(end[1]) ELSE clock + ThirtyDays]

\* a getCalendarEvents call that has not settled: sent tells whether it passed
\* the token check and sent its request
Call(id, token) == [id |-> id, sent |-> ~NoToken(token), status |-> None]

\* loadEvents() up to its await, with the date bounds start and end
loadEvents(start, end) ==
    /\ issued < MaxFetches
    /\ loading' = TRUE
    /\ error' = None
    /\ LET call == Call(issued + 1, accessToken)
       IN  /\ calls' = calls \cup {call}
           /\ requests' = IF call.sent THEN requests + 1 ELSE requests
           /\ request' = IF call.sent
                         THEN Some(Request(accessToken, start, end, now))
                         ELSE request
    /\ issued' = issued + 1
    /\ latest' = IF latest = NotFollowed THEN latest ELSE Followed(None)

\* $: if (startDate || endDate) loadEvents(), run with the date bounds start and end
ReactiveDates(start, end) ==
    IF start # None \/ end # None
    THEN loadEvents(start, end)
    ELSE UNCHANGED <<loading, error, calls, requests, request, issued, latest>>

\* the component as its script leaves it, before its reactive blocks run
Created ==
    /\ pc = "created"
    /\ events = <<>>
    /\ filteredEvents = <<>>
    /\ loading = FALSE
    /\ error = None
    /\ now = 0
    /\ zone \in TimeZones
    /\ startDate = Some(FormatDay(now, zone))
    /\ endDate = Some(FormatDay(now + ThirtyDays, zone))
    /\ searchQuery = <<>>
    /\ selectedType = "all"
    /\ accessToken \in TokenValues
    /\ calls = {}
    /\ issued = 0
    /\ requests = 0
    /\ request = None
    /\ returned = <<>>
    /\ download = None
    /\ popup = "none"
    /\ written = None
    /\ printed = FALSE
    /\ selectedEvent = None
    /\ showModal = FALSE
    /\ storage = accessToken
    /\ user = TRUE
    /\ initialLoginInProgress = FALSE
    /\ signIns = 0
    /\ signOuts = 0

Init ==
    /\ Created
    /\ latest = NotFollowed

\* the first run of the two reactive blocks, when the component is created
ReactiveInit ==
    /\ pc = "created"
    /\ pc' = "updated"
    /\ filteredEvents' = filterEvents(events, searchQuery, selectedType)
    /\ ReactiveDates(startDate, endDate)
    /\ UNCHANGED <<events, startDate, endDate, searchQuery, selectedType,
                   accessToken, now, zone, returned>>
    /\ UNCHANGED <<exports, modal, page>>

Mount_NoLoad ==
    /\ pc = "updated"
    /\ pc' = "mounted"
    /\ UNCHANGED <<events, filteredEvents, loading, error, startDate, endDate,
                   searchQuery, selectedType, accessToken, now, zone, calls,
                   issued, requests, request, returned>>
    /\ UNCHANGED <<exports, modal, page>>
    /\ UNCHANGED latest

\* onMount(loadEvents)
Mount ==
    /\ pc = "updated"
    /\ pc' = "mounted"
    /\ loadEvents(startDate, endDate)
    /\ UNCHANGED <<events, filteredEvents, startDate, endDate, searchQuery,
                   selectedType, accessToken, now, zone, returned>>
    /\ UNCHANGED <<exports, modal, page>>

\* bind:value={searchQuery}, then the filter block
SetSearchQuery(q) ==
    /\ pc = "mounted"
    /\ q # searchQuery
    /\ searchQuery' = q
    /\ filteredEvents' = filterEvents(events, q, selectedType)
    /\ UNCHANGED <<pc, events, loading, error, startDate, endDate, selectedType,
                   accessToken, now, zone, calls, issued, requests, request,
                   returned>>
    /\ UNCHANGED <<exports, modal, page>>
    /\ UNCHANGED latest

\* bind:value={selectedType}, then the filter block
SetSelectedType(t) ==
    /\ pc = "mounted"
    /\ t # selectedType
    /\ selectedType' = t
    /\ filteredEvents' = filterEvents(events, searchQuery, t)
    /\ UNCHANGED <<pc, events, loading, error, startDate, endDate, searchQuery,
                   accessToken, now, zone, calls, issued, requests, request,
                   returned>>
    /\ UNCHANGED <<exports, modal, page>>
    /\ UNCHANGED latest

\* bind:value={startDate}, then the date block
SetStartDate(d) ==
    /\ pc = "mounted"
    /\ d # startDate
    /\ startDate' = d
    /\ ReactiveDates(d, endDate)
    /\ UNCHANGED <<pc, events, filteredEvents, endDate, searchQuery, selectedType,
                   accessToken, now, zone, returned>>
    /\ UNCHANGED <<exports, modal, page>>

\* bind:value={endDate}, then the date block
SetEndDate(d) ==
    /\ pc = "mounted"
    /\ d # endDate
    /\ endDate' = d
    /\ ReactiveDates(startDate, d)
    /\ UNCHANGED <<pc, events, filteredEvents, startDate, searchQuery, selectedType,
                   accessToken, now, zone, returned>>
    /\ UNCHANGED <<exports, modal, page>>

\* the Today button: setToday(), then the date block when a bound changed
setToday ==
    /\ pc = "mounted"
    /\ LET today == Some(FormatDay(now, zone))
       IN  /\ startDate # today \/ endDate # today
           /\ startDate' = today
           /\ endDate' = today
           /\ ReactiveDates(today, today)
    /\ UNCHANGED <<pc, events, filteredEvents, searchQuery, selectedType,
                   accessToken, now, zone, returned>>
    /\ UNCHANGED <<exports, modal, page>>

loadEventsCatch_DropsEvents(message) ==
    /\ error' = Some(message)
    /\ loading' = FALSE
    /\ events' = <<>>
    /\ filteredEvents' = <<>>

loadEventsCatch_KeepsLoading(message) ==
    /\ error' = Some(message)
    /\ UNCHANGED <<events, filteredEvents, loading>>

\* catch (e) { error = e.message } finally { loading = false }
loadEventsCatch(message) ==
    /\ error' = Some(message)
    /\ loading' = FALSE
    /\ UNCHANGED <<events, filteredEvents>>

loadEventsThen_Appends(items) ==
    /\ events' = events \o items
    /\ filteredEvents' = filterEvents(events \o items, searchQuery, selectedType)
    /\ loading' = FALSE
    /\ UNCHANGED error

loadEventsThen_NoFilter(items) ==
    /\ events' = items
    /\ loading' = FALSE
    /\ UNCHANGED <<filteredEvents, error>>

\* events = await ...; filterEvents(); finally { loading = false }
loadEventsThen(items) ==
    /\ events' = items
    /\ filteredEvents' = filterEvents(items, searchQuery, selectedType)
    /\ loading' = FALSE
    /\ UNCHANGED error

\* the rest of loadEvents() once its getCalendarEvents call has ended with result
loadEventsResume(result) ==
    IF result.ok THEN loadEventsThen(result.value) ELSE loadEventsCatch(result.message)

\* a call that found no token ends: throw new Error('No access token available')
RejectNoToken(call) ==
    /\ pc = "mounted"
    /\ call \in calls
    /\ ~call.sent
    /\ calls' = calls \ {call}
    /\ loadEventsResume(Failure(NoTokenMessage))
    /\ UNCHANGED <<pc, startDate, endDate, searchQuery, selectedType, accessToken,
                   now, zone, issued, requests, request, returned>>
    /\ UNCHANGED <<exports, modal, page>>
    /\ latest' = IF latest # NotFollowed /\ call.id = issued
                 THEN Followed(Some(Failure(NoTokenMessage)))
                 ELSE latest

Respond_RetryOnFailure(call, head) ==
    /\ pc = "mounted"
    /\ call \in calls
    /\ call.sent
    /\ call.status = None
    /\ IF head.fetch = "rejected"
       THEN /\ requests' = requests + 1
            /\ UNCHANGED calls
       ELSE /\ calls' = (calls \ {call}) \cup {[call EXCEPT !.status = Some(head.ok)]}
            /\ UNCHANGED requests
    /\ UNCHANGED <<events, filteredEvents, loading, error, returned, latest>>
    /\ UNCHANGED <<pc, startDate, endDate, searchQuery, selectedType, accessToken,
                   now, zone, issued, request>>
    /\ UNCHANGED <<exports, modal, page>>

\* await fetch(...) of a call settles: the fetch promise rejects (the network
\* failed) and the call ends, or it resolves with a response whose status is
\* known (head) and whose body is still to be read
Respond(call, head) ==
    /\ pc = "mounted"
    /\ call \in calls
    /\ call.sent
    /\ call.status = None
    /\ IF head.fetch = "rejected"
       THEN /\ calls' = calls \ {call}
            /\ loadEventsResume(Failure(NetworkFailureMessage))
            /\ latest' = IF latest # NotFollowed /\ call.id = issued
                         THEN Followed(Some(Failure(NetworkFailureMessage)))
                         ELSE latest
       ELSE /\ calls' = (calls \ {call}) \cup {[call EXCEPT !.status = Some(head.ok)]}
            /\ UNCHANGED <<events, filteredEvents, loading, error, latest>>
    /\ UNCHANGED <<pc, startDate, endDate, searchQuery, selectedType, accessToken,
                   now, zone, issued, requests, request, returned>>
    /\ UNCHANGED <<exports, modal, page>>

\* await response.json() of a call settles, for a response resp with the
\* status the call has seen: getCalendarEvents ends and loadEvents resumes
ReadBody(call, resp) ==
    /\ pc = "mounted"
    /\ call \in calls
    /\ call.status # None
    /\ resp.fetch = "resolved"
    /\ resp.ok = call.status[1]
    /\ calls' = calls \ {call}
    /\ LET result == getCalendarEventsResult(resp)
       IN  /\ returned' = IF result.ok THEN result.value ELSE returned
           /\ loadEventsResume(result)
    /\ UNCHANGED <<pc, startDate, endDate, searchQuery, selectedType, accessToken,
                   now, zone, issued, requests, request>>
    /\ UNCHANGED <<exports, modal, page>>
    /\ latest' = IF latest # NotFollowed /\ call.id = issued
                 THEN Followed(Some(getCalendarEventsResult(resp)))
                 ELSE latest

\* what the markup shows below the filters: the {#if loading} ... {:else} chain
View ==
    IF loading THEN "spinner"
    ELSE IF error # None /\ error # Some("") THEN "error"
    ELSE IF Len(filteredEvents) = 0 THEN "empty"
    ELSE "table"

\* on:click of a table row: openEventDetails(event)
openEventDetails(event) ==
    /\ pc = "mounted"
    /\ View = "table"
    /\ \E i \in 1..Len(filteredEvents) : filteredEvents[i] = event
    /\ selectedEvent' = Some(event)
    /\ showModal' = TRUE
    /\ UNCHANGED <<pc, events, filteredEvents, loading, error, startDate, endDate,
                   searchQuery, selectedType, accessToken, now, zone, calls,
                   issued, requests, request, returned>>
    /\ UNCHANGED <<exports, page>>
    /\ UNCHANGED latest

\* on:click of the backdrop or of the close button of the modal: closeModal()
closeModal ==
    /\ pc = "mounted"
    /\ showModal
    /\ selectedEvent # None
    /\ showModal' = FALSE
    /\ selectedEvent' = None
    /\ UNCHANGED <<pc, events, filteredEvents, loading, error, startDate, endDate,
                   searchQuery, selectedType, accessToken, now, zone, calls,
                   issued, requests, request, returned>>
    /\ UNCHANGED <<exports, page>>
    /\ UNCHANGED latest

\* the variables of one Calendar instance, with what the model records of
\* its calls
component == <<pc, events, filteredEvents, loading, error, startDate, endDate,
               searchQuery, selectedType, calls, selectedEvent, showModal,
               issued, requests, request, returned>>

\* a Calendar instance as its script leaves it (rendered: pc is "created"),
\* and the values the model keeps while no instance is rendered ("absent")
Instance(at) ==
    /\ pc' = at
    /\ events' = <<>>
    /\ filteredEvents' = <<>>
    /\ loading' = FALSE
    /\ error' = None
    /\ startDate' = Some(FormatDay(now, zone))
    /\ endDate' = Some(FormatDay(now + ThirtyDays, zone))
    /\ searchQuery' = <<>>
    /\ selectedType' = "all"
    /\ calls' = {}
    /\ selectedEvent' = None
    /\ showModal' = FALSE
    /\ issued' = 0
    /\ requests' = 0
    /\ request' = None
    /\ returned' = <<>>

\* $user && $accessToken
Gate(u, token) == u /\ ~NoToken(token)

\* {#if $user && $accessToken} <Calendar /> once the stores hold u and token:
\* the instance is created when the condition becomes true and destroyed
\* when it becomes false (the calls of a destroyed instance resume into an
\* instance that is not rendered any more: they are dropped)
CalendarBlock(u, token) ==
    IF Gate(u, token) = Gate(user, accessToken) THEN UNCHANGED component
    ELSE IF Gate(u, token) THEN Instance("created")
    ELSE Instance("absent")

\* no Calendar instance is in the middle of its creation
PageAtRest == pc \in {"absent", "mounted"}

\* accessToken.set(token) and the write of the storage entry that goes with
\* it, by the page that owns the store and renders the component
SetAccessToken(token) ==
    /\ PageAtRest
    /\ token # accessToken
    /\ accessToken' = token
    /\ storage' = token
    /\ CalendarBlock(user, token)
    /\ UNCHANGED <<now, zone>>
    /\ UNCHANGED <<exports, user, initialLoginInProgress, signIns, signOuts>>
    /\ UNCHANGED latest

\* time passes
Tick ==
    /\ pc = "mounted"
    /\ now + TickHours <= MaxNow * HoursPerDay
    /\ now' = now + TickHours
    /\ UNCHANGED <<pc, events, filteredEvents, loading, error, startDate, endDate,
                   searchQuery, selectedType, accessToken, zone, calls, issued,
                   requests, request, returned>>
    /\ UNCHANGED <<exports, modal, page>>
    /\ UNCHANGED latest

Next ==
    \/ ReactiveInit
    \/ Mount
    \/ \E q \in TypedQueries : SetSearchQuery(q)
    \/ \E t \in PickedTypes : SetSelectedType(t)
    \/ \E d \in DateInputs : SetStartDate(d)
    \/ \E d \in DateInputs : SetEndDate(d)
    \/ setToday
    \/ \E call \in calls : RejectNoToken(call)
    \/ \E call \in calls, head \in Arrivals(Responses) : Respond(call, head)
    \/ \E call \in calls, resp \in Responses : ReadBody(call, resp)
    \/ \E token \in StoredTokens : SetAccessToken(token)
    \/ Tick

Spec == Init /\ [][Next]_vars

----------------------------------------------------------------------------
(* The order in which the calls end.  Nothing orders the answers of the      *)
(* endpoint: a call issued earlier may end after a call issued later.  The   *)
(* specification follows, in latest, how the call issued last has ended.     *)

\* what the endpoint answers here: a network failure, a refusal, and three
\* different lists
OrderResponses ==
    {Response("rejected", FALSE, "invalid", None, None),
     Response("resolved", FALSE, "object", Some("Invalid Credentials"), None)}
    \cup {Response("resolved", TRUE, "object", None, Some(l)) : l \in ResponseLists}

InitOrder ==
    /\ Created
    /\ accessToken \in StoredTokens
    /\ latest = Followed(None)

NextOrder ==
    \/ ReactiveInit
    \/ Mount
    \/ \E d \in DateInputs : SetStartDate(d)
    \/ \E d \in DateInputs : SetEndDate(d)
    \/ setToday
    \/ \E call \in calls : RejectNoToken(call)
    \/ \E call \in calls, head \in Arrivals(OrderResponses) : Respond(call, head)
    \/ \E call \in calls, resp \in OrderResponses : ReadBody(call, resp)

SpecOrder == InitOrder /\ [][NextOrder]_vars

\* The reactive blocks and onMount run when the component is created; the
\* rejection of a call without a token is delivered by the promise job queue;
\* the endpoint is assumed to answer or to fail every request it was sent.
Fairness ==
    /\ WF_vars(ReactiveInit)
    /\ WF_vars(Mount)
    /\ WF_vars(\E call \in calls : RejectNoToken(call))
    /\ WF_vars(\E call \in calls, head \in Arrivals(OrderResponses) : Respond(call, head))
    /\ WF_vars(\E call \in calls, resp \in OrderResponses : ReadBody(call, resp))

SpecLive == InitOrder /\ [][NextOrder]_vars /\ Fairness

----------------------------------------------------------------------------
(* What the component renders for an event, and the two exporters.  A text   *)
(* that is written into a file or a document is a sequence of pieces: the    *)
(* characters that mean something to CSV or to HTML (the double quote, the   *)
(* comma, the line feed, a tag) are pieces of their own.                     *)

\* event.start / event.end: an object with an optional dateTime (an instant)
\* and an optional date (a day)
When(dateTime, date) == Some([dateTime |-> dateTime, date |-> date])

\* the event with a start and an end
At(event, start, end) == [event EXCEPT !.start = start, !.end = end]

\* format(date, 'PP'): 'Jan 1, 1970'; the days of the model lie in January 1970
FormatPP(instant, offset) ==
    << "Jan " \o ToString(FormatDay(instant, offset) + 1), ",", " 1970" >>

\* the time of format(date, 'PPp'): ' 12:00 AM', with the blank that follows the comma
FormatTime(instant, offset) ==
    LET hour == (instant + offset) % HoursPerDay
        h12 == IF hour % 12 = 0 THEN 12 ELSE hour % 12
    IN  " " \o ToString(h12) \o ":00 " \o (IF hour < 12 THEN "AM" ELSE "PM")

\* format(date, 'PPp'): 'Jan 1, 1970, 12:00 AM'
FormatPPp(instant, offset) ==
    FormatPP(instant, offset) \o <<",", FormatTime(instant, offset)>>

formatWhen_DateFirst(when, offset) ==
    IF when # None /\ when[1].date # None
    THEN FormatPP(ParseDay(when[1].date[1]), offset)
    ELSE IF when # None /\ when[1].dateTime # None
    THEN FormatPPp(when[1].dateTime[1], offset)
    ELSE <<"N/A">>

\* when?.dateTime ? format(new Date(when.dateTime), 'PPp')
\*     : when?.date ? format(new Date(when.date), 'PP') : 'N/A'
formatWhen(when, offset) ==
    IF when # None /\ when[1].dateTime # None
    THEN FormatPPp(when[1].dateTime[1], offset)
    ELSE IF when # None /\ when[1].date # None
    THEN FormatPP(ParseDay(when[1].date[1]), offset)
    ELSE <<"N/A">>

\* text || fallback
OrElse(text, fallback) ==
    IF text = None \/ text = Some(<<>>) THEN fallback ELSE text[1]

\* event.eventType || 'Default'
TypeText(event) ==
    IF NoEventType(event) THEN <<"Default">> ELSE <<event.eventType[1]>>

\* {#if event.description}: the line the title cell shows under the title
DescriptionLine(event) ==
    IF event.description = None \/ event.description = Some(<<>>)
    THEN <<>>
    ELSE <<event.description[1]>>

\* the cells of the table the markup shows, one row per filtered event; the
\* first cell holds the lines of the title cell (the title, then the
\* description when there is one), the others the text of their cell
tableRows(evs, offset) ==
    [i \in 1..Len(evs) |->
        << <<OrElse(evs[i].summary, <<"Untitled Event">>)>> \o DescriptionLine(evs[i]),
           formatWhen(evs[i].start, offset),
           formatWhen(evs[i].end, offset),
           OrElse(evs[i].location, <<"No location">>),
           TypeText(evs[i]) >>]

FiltersMessage == "No events found matching your filters."
DateRangeMessage == "No events found for the selected date range."

\* searchQuery || selectedType !== 'all' ? ... : ...
EmptyMessage ==
    IF searchQuery # <<>> \/ selectedType # "all"
    THEN FiltersMessage
    ELSE DateRangeMessage

headers ==
    << <<"Title">>, <<"Start">>, <<"End">>, <<"Location">>, <<"Type">>,
       <<"Description">> >>

csvData_NoFallbacks(evs, offset) ==
    [i \in 1..Len(evs) |->
        << OrElse(evs[i].summary, <<>>),
           formatWhen(evs[i].start, offset),
           formatWhen(evs[i].end, offset),
           OrElse(evs[i].location, <<>>),
           IF NoEventType(evs[i]) THEN <<>> ELSE <<evs[i].eventType[1]>>,
           OrElse(evs[i].description, <<>>) >>]

\* const csvData = filteredEvents.map(event => [...])
csvData(evs, offset) ==
    [i \in 1..Len(evs) |->
        << OrElse(evs[i].summary, <<"Untitled Event">>),
           formatWhen(evs[i].start, offset),
           formatWhen(evs[i].end, offset),
           OrElse(evs[i].location, <<"No location">>),
           TypeText(evs[i]),
           OrElse(evs[i].description, <<>>) >>]

replaceQuotes_Unchanged(cell) == cell

\* cell.replace(/"/g, '""')
RECURSIVE replaceQuotes(_)
replaceQuotes(cell) ==
    IF cell = <<>> THEN <<>>
    ELSE (IF Head(cell) = "\"" THEN <<"\"", "\"">> ELSE <<Head(cell)>>)
         \o replaceQuotes(Tail(cell))

\* `"${cell.replace(/"/g, '""')}"`
quoted(cell) == <<"\"">> \o replaceQuotes(cell) \o <<"\"">>

\* parts.join(separator)
RECURSIVE join(_, _)
join(parts, separator) ==
    IF parts = <<>> THEN <<>>
    ELSE IF Len(parts) = 1 THEN parts[1]
    ELSE parts[1] \o separator \o join(Tail(parts), separator)

csvContent_NoHeader(evs, offset) ==
    join([i \in 1..Len(evs) |->
             join([k \in 1..6 |-> quoted(csvData(evs, offset)[i][k])], <<",">>)],
         <<"\n">>)

\* const csvContent = [headers.join(','), ...csvData.map(row => ...)].join('\n')
csvContent(evs, offset) ==
    join(<<join(headers, <<",">>)>>
         \o [i \in 1..Len(evs) |->
                join([k \in 1..6 |-> quoted(csvData(evs, offset)[i][k])], <<",">>)],
         <<"\n">>)

\* exportToCSV(): the file goes to the browser's downloads, named after today
exportToCSV ==
    /\ pc = "mounted"
    /\ download' = Some([filename |-> FormatDay(now, zone),
                         content |-> csvContent(filteredEvents, zone)])
    /\ UNCHANGED <<pc, events, filteredEvents, loading, error, startDate, endDate,
                   searchQuery, selectedType, accessToken, now, zone, calls,
                   issued, requests, request, returned, popup, written, printed>>
    /\ UNCHANGED <<modal, page>>
    /\ UNCHANGED latest

td(text) == <<"<td>">> \o text \o <<"</td>">>
th(text) == <<"<th>">> \o text \o <<"</th>">>

\* the <tr> of one event in the template of exportToPDF
htmlRow(event, offset) ==
    <<"<tr>">>
    \o td(OrElse(event.summary, <<"Untitled Event">>))
    \o td(formatWhen(event.start, offset))
    \o td(formatWhen(event.end, offset))
    \o td(OrElse(event.location, <<"No location">>))
    \o td(TypeText(event))
    \o <<"</tr>">>

\* const html = `...`, for the day bounds start and end (the <style> is left out)
html(evs, start, end, offset) ==
    <<"<html>", "<head>", "<title>", "Calendar Events", "</title>", "</head>",
      "<body>", "<h1>", "Calendar Events (">>
    \o FormatPP(ParseDay(start), offset) \o <<" - ">>
    \o FormatPP(ParseDay(end), offset) \o <<")", "</h1>">>
    \o <<"<table>", "<thead>", "<tr>">>
    \o th(<<"Title">>) \o th(<<"Start">>) \o th(<<"End">>) \o th(<<"Location">>)
    \o th(<<"Type">>)
    \o <<"</tr>", "</thead>", "<tbody>">>
    \o join([i \in 1..Len(evs) |-> htmlRow(evs[i], offset)], <<>>)
    \o <<"</tbody>", "</table>", "</body>", "</html>">>

exportToPDF_ReportsBlocked(opened) ==
    /\ pc = "mounted"
    /\ IF ~opened
       THEN /\ popup' = "blocked"
            /\ error' = Some("Popup blocked")
            /\ UNCHANGED <<written, printed>>
       ELSE /\ popup' = "opened"
            /\ UNCHANGED error
            /\ IF startDate = None \/ endDate = None
               THEN written' = None /\ printed' = FALSE
               ELSE /\ written' = Some(html(filteredEvents, startDate[1],
                                            endDate[1], zone))
                    /\ printed' = TRUE
    /\ UNCHANGED <<pc, events, filteredEvents, loading, startDate, endDate,
                   searchQuery, selectedType, accessToken, now, zone, calls,
                   issued, requests, request, returned, download>>
    /\ UNCHANGED <<modal, page>>
    /\ UNCHANGED latest

\* exportToPDF(), opened telling whether window.open gave a window.  With an
\* empty date bound format(new Date(''), 'PP') throws a RangeError while the
\* template is built: the window stays empty and print() is not reached.
exportToPDF(opened) ==
    /\ pc = "mounted"
    /\ IF ~opened
       THEN /\ popup' = "blocked"
            /\ UNCHANGED <<written, printed>>
       ELSE /\ popup' = "opened"
            /\ IF startDate = None \/ endDate = None
               THEN written' = None /\ printed' = FALSE
               ELSE /\ written' = Some(html(filteredEvents, startDate[1],
                                            endDate[1], zone))
                    /\ printed' = TRUE
    /\ UNCHANGED <<pc, events, filteredEvents, loading, error, startDate, endDate,
                   searchQuery, selectedType, accessToken, now, zone, calls,
                   issued, requests, request, returned, download>>
    /\ UNCHANGED <<modal, page>>
    /\ UNCHANGED latest

----------------------------------------------------------------------------
(* The component with its exporters, signed in: the user types, picks a     *)
(* type, presses Today and the two export buttons while fetches come back.  *)

ExportQueries == {<<>>, <<" ">>}
ExportTypes == {"all", "birthday"}

ExportResponses ==
    { Response("rejected", FALSE, "invalid", None, None),
      Response("resolved", TRUE, "object", None, Some(<<>>)),
      Response("resolved", TRUE, "object", None,
               Some(<< At(Ev("e3", None, None, Some(<<"a", " ">>), Some("birthday")),
                          When(None, Some(0)), When(None, Some(1))),
                       At(Ev("e1", Some(<<"A", "b">>), None, None, None),
                          When(Some(10), None), When(Some(15), None)) >>)) }

InitExport ==
    /\ Init
    /\ accessToken = Some("ya29.token")

NextExport ==
    \/ ReactiveInit
    \/ Mount
    \/ \E q \in ExportQueries : SetSearchQuery(q)
    \/ \E t \in ExportTypes : SetSelectedType(t)
    \/ setToday
    \/ \E call \in calls, head \in Arrivals(ExportResponses) : Respond(call, head)
    \/ \E call \in calls, resp \in ExportResponses : ReadBody(call, resp)
    \/ exportToCSV
    \/ \E opened \in BOOLEAN : exportToPDF(opened)
    \/ \E i \in 1..Len(filteredEvents) : openEventDetails(filteredEvents[i])
    \/ closeModal

SpecExport == InitExport /\ [][NextExport]_vars

----------------------------------------------------------------------------
(* The exporters on their own: exportToCSV() and exportToPDF() applied to    *)
(* arbitrary filtered lists of a mounted component at rest.                  *)

ExportPool ==
    { Ev("x1", Some(<<"A", "\"", "B">>), None, None, None),
      At(Ev("x2", Some(<<"a">>), Some(<<"a", "\n", "b">>), Some(<<"b", ",", "a">>),
            Some("birthday")),
         When(Some(10), None), When(Some(15), None)),
      At(Ev("x3", None, Some(<<"\"">>), Some(<<>>), Some("")),
         When(None, Some(0)), When(None, Some(1))),
      At(Ev("x4", Some(<<"<b>", "a">>), None, Some(<<"\"", "a", "\"">>),
            Some("default")),
         When(Some(24), Some(0)), When(None, None)) }

InitRows ==
    /\ pc = "mounted"
    /\ filteredEvents \in ListsUpTo(ExportPool, MaxLen)
    /\ events = filteredEvents
    /\ returned = filteredEvents
    /\ searchQuery = <<>>
    /\ selectedType = "all"
    /\ loading = FALSE
    /\ error = None
    /\ now = 0
    /\ zone = 0
    /\ startDate \in {None, Some(0)}
    /\ endDate = Some(1)
    /\ accessToken = Some("ya29.token")
    /\ calls = {}
    /\ issued = 0
    /\ requests = 0
    /\ request = None
    /\ download = None
    /\ popup = "none"
    /\ written = None
    /\ printed = FALSE
    /\ selectedEvent = None
    /\ showModal = FALSE
    /\ storage = accessToken
    /\ user = TRUE
    /\ initialLoginInProgress = FALSE
    /\ signIns = 0
    /\ signOuts = 0
    /\ latest = NotFollowed

NextRows ==
    \/ exportToCSV
    \/ \E opened \in BOOLEAN : exportToPDF(opened)

SpecRows == InitRows /\ [][NextRows]_vars

----------------------------------------------------------------------------
(* The filter on its own: filterEvents() applied to arbitrary events, query  *)
(* and selector, and applied again to its own result.                       *)

InitFilter ==
    /\ pc = "input"
    /\ events \in ListsUpTo(EventPool, MaxLen)
    /\ filteredEvents = <<>>
    /\ searchQuery \in StringsUpTo(MaxQueryLen)
    /\ selectedType \in eventTypes
    /\ loading = FALSE
    /\ error = None
    /\ now = 0
    /\ zone = 0
    /\ startDate = None
    /\ endDate = None
    /\ accessToken = None
    /\ calls = {}
    /\ issued = 0
    /\ requests = 0
    /\ request = None
    /\ returned = <<>>
    /\ download = None
    /\ popup = "none"
    /\ written = None
    /\ printed = FALSE
    /\ selectedEvent = None
    /\ showModal = FALSE
    /\ storage = accessToken
    /\ user = TRUE
    /\ initialLoginInProgress = FALSE
    /\ signIns = 0
    /\ signOuts = 0
    /\ latest = NotFollowed

FilterOnce ==
    /\ pc = "input"
    /\ pc' = "filtered"
    /\ filteredEvents' = filterEvents(events, searchQuery, selectedType)
    /\ UNCHANGED <<events, loading, error, startDate, endDate, searchQuery,
                   selectedType, accessToken, now, zone, calls, issued, requests,
                   request, returned>>
    /\ UNCHANGED <<exports, modal, page>>
    /\ UNCHANGED latest

\* the result becomes the event list and is filtered with the same criteria
FilterAgain ==
    /\ pc = "filtered"
    /\ pc' = "refiltered"
    /\ events' = filteredEvents
    /\ filteredEvents' = filterEvents(filteredEvents, searchQuery, selectedType)
    /\ UNCHANGED <<loading, error, startDate, endDate, searchQuery, selectedType,
                   accessToken, now, zone, calls, issued, requests, request,
                   returned>>
    /\ UNCHANGED <<exports, modal, page>>
    /\ UNCHANGED latest

NextFilter == FilterOnce \/ FilterAgain

SpecFilter == InitFilter /\ [][NextFilter]_vars

----------------------------------------------------------------------------
(* The page: the login and logout handlers, the token store with its entry   *)
(* in localStorage, and the Calendar component behind {#if $user &&          *)
(* $accessToken}.  A handler runs up to its await in one step and resumes in *)
(* another when the awaited call settles.  The user store is written outside *)
(* these sources, by the listener of the authentication state: it changes at *)
(* any moment.                                                               *)

\* access tokens a sign-in may deliver
SignInTokens == {"ya29.fresh", "ya29.later"}

\* how signInWithPopup settles: it resolves with a result whose credential
\* has an access token, has an empty one or has none, or it rejects with a code
Credential(token) == [resolved |-> TRUE, token |-> token, code |-> ""]
Rejected(code) == [resolved |-> FALSE, token |-> None, code |-> code]

SignInOutcomes ==
    {Credential(Some(t)) : t \in SignInTokens \cup {""}}
    \cup {Credential(None)}
    \cup {Rejected(c) : c \in {"auth/popup-closed-by-user", "auth/network-request-failed"}}

InitPage ==
    /\ pc = "absent"
    /\ events = <<>>
    /\ filteredEvents = <<>>
    /\ loading = FALSE
    /\ error = None
    /\ now = 0
    /\ zone \in TimeZones
    /\ startDate = Some(FormatDay(now, zone))
    /\ endDate = Some(FormatDay(now + ThirtyDays, zone))
    /\ searchQuery = <<>>
    /\ selectedType = "all"
    /\ storage \in StoredTokens
    /\ accessToken = storage
    /\ calls = {}
    /\ issued = 0
    /\ requests = 0
    /\ request = None
    /\ returned = <<>>
    /\ download = None
    /\ popup = "none"
    /\ written = None
    /\ printed = FALSE
    /\ selectedEvent = None
    /\ showModal = FALSE
    /\ user = FALSE
    /\ initialLoginInProgress = FALSE
    /\ signIns = 0
    /\ signOuts = 0
    /\ latest = NotFollowed

\* user.set(...) by the listener of the authentication state
AuthStateChanged(u) ==
    /\ PageAtRest
    /\ u # user
    /\ user' = u
    /\ CalendarBlock(u, accessToken)
    /\ UNCHANGED <<accessToken, storage, initialLoginInProgress, signIns, signOuts>>
    /\ UNCHANGED <<now, zone, exports, latest>>

\* a Login button is rendered: the one of the header ({#if $user} ... {:else})
\* or the one of the welcome screen ({#if $user && $accessToken} ... {:else})
LoginOffered == ~user \/ ~Gate(user, accessToken)

handleLogin_NoGuard ==
    /\ PageAtRest
    /\ LoginOffered
    /\ initialLoginInProgress' = TRUE
    /\ signIns' = signIns + 1
    /\ UNCHANGED <<accessToken, storage, user, signOuts>>
    /\ UNCHANGED <<component, now, zone, exports, latest>>

\* on:click of the Login button: handleLogin() up to await signInWithPopup(...)
handleLogin ==
    /\ PageAtRest
    /\ LoginOffered
    /\ IF initialLoginInProgress
       THEN UNCHANGED <<initialLoginInProgress, signIns>>
       ELSE /\ initialLoginInProgress' = TRUE
            /\ signIns' = signIns + 1
    /\ UNCHANGED <<accessToken, storage, user, signOuts>>
    /\ UNCHANGED <<component, now, zone, exports, latest>>

\* !credential?.accessToken
NoAccessToken(outcome) == outcome.token = None \/ outcome.token = Some("")

\* handleLogin() from the moment signInWithPopup settles: the try block, or
\* the catch block, and the finally block
handleLoginResume(outcome) ==
    /\ PageAtRest
    /\ signIns > 0
    /\ signIns' = signIns - 1
    /\ LET token == IF outcome.resolved /\ ~NoAccessToken(outcome)
                    THEN outcome.token
                    ELSE None
       IN  /\ accessToken' = token
           /\ storage' = token
           /\ CalendarBlock(user, token)
    /\ initialLoginInProgress' = FALSE
    /\ UNCHANGED <<user, signOuts>>
    /\ UNCHANGED <<now, zone, exports, latest>>

\* on:click of the Logout button: handleLogout() up to await signOut(auth)
handleLogout ==
    /\ PageAtRest
    /\ user
    /\ signOuts < MaxSignOuts
    /\ signOuts' = signOuts + 1
    /\ UNCHANGED <<accessToken, storage, user, initialLoginInProgress, signIns>>
    /\ UNCHANGED <<component, now, zone, exports, latest>>

handleLogoutResume_StoreOnly(fulfilled) ==
    /\ PageAtRest
    /\ signOuts > 0
    /\ signOuts' = signOuts - 1
    /\ IF fulfilled
       THEN /\ accessToken' = None
            /\ UNCHANGED storage
            /\ CalendarBlock(user, None)
       ELSE UNCHANGED <<accessToken, storage, component>>
    /\ UNCHANGED <<user, initialLoginInProgress, signIns>>
    /\ UNCHANGED <<now, zone, exports, latest>>

\* handleLogout() from the moment signOut settles: the rest of the try block
\* when it was fulfilled, the catch block when it was rejected
handleLogoutResume(fulfilled) ==
    /\ PageAtRest
    /\ signOuts > 0
    /\ signOuts' = signOuts - 1
    /\ IF fulfilled
       THEN /\ accessToken' = None
            /\ storage' = None
            /\ CalendarBlock(user, None)
       ELSE UNCHANGED <<accessToken, storage, component>>
    /\ UNCHANGED <<user, initialLoginInProgress, signIns>>
    /\ UNCHANGED <<now, zone, exports, latest>>

\* what the endpoint answers here
PageResponses ==
    { Response("rejected", FALSE, "invalid", None, None),
      Response("resolved", FALSE, "object", Some("Invalid Credentials"), None),
      Response("resolved", TRUE, "object", None,
               Some(<< Ev("e3", None, None, Some(<<"a", " ">>), Some("birthday")),
                       Ev("e1", Some(<<"A", "b">>), None, None, None) >>)) }

NextPage ==
    \/ \E u \in BOOLEAN : AuthStateChanged(u)
    \/ handleLogin
    \/ \E outcome \in SignInOutcomes : handleLoginResume(outcome)
    \/ handleLogout
    \/ \E fulfilled \in BOOLEAN : handleLogoutResume(fulfilled)
    \/ ReactiveInit
    \/ Mount
    \/ \E q \in ExportQueries : SetSearchQuery(q)
    \/ setToday
    \/ \E call \in calls, head \in Arrivals(PageResponses) : Respond(call, head)
    \/ \E call \in calls, resp \in PageResponses : ReadBody(call, resp)
    \/ exportToCSV

SpecPage == InitPage /\ [][NextPage]_vars

----------------------------------------------------------------------------
(* The rules the claims state, written without the filter's own operators *)

\* the query is empty or holds white space only
Blank(q) == \A i \in 1..Len(q) : q[i] = " "

FoldCase(c) == IF c = "A" THEN "a" ELSE IF c = "B" THEN "b" ELSE c

\* needle occurs in hay, case ignored
OccursIn(needle, hay) ==
    \E start \in 1..(Len(hay) + 1) :
        /\ start + Len(needle) - 1 <= Len(hay)
        /\ \A k \in 1..Len(needle) : FoldCase(hay[start + k - 1]) = FoldCase(needle[k])

\* the text rule: blank query, or the query occurs in the title, the description
\* or the location; an absent field matches nothing
TextRule(e, q) ==
    \/ Blank(q)
    \/ \E field \in {e.summary, e.description, e.location} :
           Len(field) = 1 /\ OccursIn(q, field[1])

\* the type rule: 'all', or the event's type, or 'default' for an event with no type
TypeRule(e, t) ==
    \/ t = "all"
    \/ Len(e.eventType) = 1 /\ e.eventType[1] = t
    \/ Len(e.eventType) = 0 /\ t = "default"

Matching(list, q, t) == SelectSeq(list, LAMBDA e : TextRule(e, q) /\ TypeRule(e, t))

\* s is t with some elements left out: an increasing choice of positions of t
IsSubsequence(s, t) ==
    \E f \in [1..Len(s) -> 1..Len(t)] :
        /\ \A i \in 1..Len(s) : s[i] = t[f[i]]
        /\ \A i, j \in 1..Len(s) : i < j => f[i] < f[j]

\* the responses that make a call fail: the network failed, the status is not a
\* success, or the body is not JSON
Failing == {resp \in Responses :
               resp.fetch = "rejected" \/ ~resp.ok \/ resp.body = "invalid"}

\* the step settles call with a failure: no token, or a failing response
SettlesFailed(call) ==
    /\ calls' = calls \ {call}
    /\ \/ RejectNoToken(call)
       \/ \E resp \in Failing : Respond(call, Arrival(resp)) \/ ReadBody(call, resp)

\* a text field counts as missing when it is absent or empty
Missing(field) == field = None \/ field = Some(<<>>)

\* the text of a calendar day, and of an hour of the day
DateText(day) == <<"Jan " \o ToString(day + 1), ",", " 1970">>
ClockText(hour) ==
    " " \o ToString(IF hour \in {0, 12} THEN 12 ELSE IF hour > 12 THEN hour - 12 ELSE hour)
        \o ":00 " \o (IF hour >= 12 THEN "PM" ELSE "AM")

\* the start or the end as the claims word it: date and time for a date-time,
\* the date for a date-only value, 'N/A' for an absent one
WhenRule(when) ==
    IF when = None THEN <<"N/A">>
    ELSE IF when[1].dateTime # None
         THEN DateText(when[1].dateTime[1] \div 24)
              \o <<",", ClockText(when[1].dateTime[1] % 24)>>
    ELSE IF when[1].date # None THEN DateText(when[1].date[1])
    ELSE <<"N/A">>

\* the six values of the CSV row of an event, as the claims word them
RowRule(e) ==
    << IF Missing(e.summary) THEN <<"Untitled Event">> ELSE e.summary[1],
       WhenRule(e.start),
       WhenRule(e.end),
       IF Missing(e.location) THEN <<"No location">> ELSE e.location[1],
       IF e.eventType \in {None, Some("")} THEN <<"Default">> ELSE e.eventType,
       IF Missing(e.description) THEN <<>> ELSE e.description[1] >>

HeaderNames ==
    << <<"Title">>, <<"Start">>, <<"End">>, <<"Location">>, <<"Type">>,
       <<"Description">> >>

\* the numbers of a set, in increasing order
Ordered(S) ==
    [k \in 1..Cardinality(S) |->
        CHOOSE p \in S : Cardinality({q \in S : q < p}) = k - 1]

\* the pieces of text between positions lo and hi, split at the positions cuts
Pieces(lo, hi, cuts) ==
    LET at == Ordered(cuts)
    IN  [k \in 1..(Len(at) + 1) |->
            [from |-> IF k = 1 THEN lo ELSE at[k - 1] + 1,
             to |-> IF k = Len(at) + 1 THEN hi ELSE at[k] - 1]]

\* a CSV reader: a field in double quotes may hold commas, line feeds and
\* doubled double quotes; outside double quotes a comma ends a field and a line
\* feed ends a record
CsvRecords(text) ==
    LET quotes(lo, hi) == Cardinality({j \in lo..hi : text[j] = "\""})
        outside == [i \in 1..Len(text) |-> quotes(1, i - 1) % 2 = 0]
        breaks(lo, hi, c) == {i \in lo..hi : text[i] = c /\ outside[i]}
        \* of a field: the first and the last double quote wrap it, and of two
        \* double quotes in a row inside it the first stands for one
        value(lo, hi) ==
            LET kept == {i \in lo..hi :
                            \/ text[i] # "\""
                            \/ /\ quotes(lo, i - 1) % 2 = 1
                               /\ quotes(lo, i - 1) < quotes(lo, hi) - 1}
                at == Ordered(kept)
            IN  [k \in 1..Len(at) |-> text[at[k]]]
        lines == Pieces(1, Len(text), breaks(1, Len(text), "\n"))
    IN  [r \in 1..Len(lines) |->
            LET fields == Pieces(lines[r].from, lines[r].to,
                                 breaks(lines[r].from, lines[r].to, ","))
            IN  [f \in 1..Len(fields) |-> value(fields[f].from, fields[f].to)]]

\* the number of lines of a text: one more than its line feeds
LineCount(text) == 1 + Cardinality({i \in 1..Len(text) : text[i] = "\n"})

\* a text with every double quote written twice
Doubled(text) ==
    LET quotesBefore(i) == Cardinality({j \in 1..(i - 1) : text[j] = "\""})
        total == Len(text) + quotesBefore(Len(text) + 1)
    IN  [p \in 1..total |->
            LET i == CHOOSE i \in 1..Len(text) :
                         /\ i + quotesBefore(i) <= p
                         /\ p <= i + quotesBefore(i) + (IF text[i] = "\"" THEN 1 ELSE 0)
            IN  text[i]]

\* texts put one after the other with a separator between them
RECURSIVE Joined(_, _)
Joined(texts, separator) ==
    IF Len(texts) = 0 THEN <<>>
    ELSE IF Len(texts) = 1 THEN texts[1]
    ELSE Joined(SubSeq(texts, 1, Len(texts) - 1), separator)
         \o <<separator>> \o texts[Len(texts)]

\* the CSV line of an event: its six values in double quotes, commas between
LineRule(e) ==
    Joined([k \in 1..6 |-> <<"\"">> \o Doubled(RowRule(e)[k]) \o <<"\"">>], ",")

\* the tags of the print document
Tags ==
    {"<html>", "</html>", "<head>", "</head>", "<title>", "</title>", "<body>",
     "</body>", "<h1>", "</h1>", "<table>", "</table>", "<thead>", "</thead>",
     "<tbody>", "</tbody>", "<tr>", "</tr>", "<th>", "</th>", "<td>", "</td>",
     "<b>", "</b>"}

\* the rows of the table of an HTML document as a browser shows them: a row
\* runs from <tr> to </tr>, a cell from <td> or <th> to its end tag, and the
\* value of a cell is the text between them; a tag inside a cell is not text
TableOf(doc) ==
    LET places(lo, hi, tags) == Ordered({i \in lo..hi : doc[i] \in tags})
        rowFrom == places(1, Len(doc), {"<tr>"})
        rowTo == places(1, Len(doc), {"</tr>"})
        textOf(lo, hi) ==
            LET at == Ordered({i \in lo..hi : doc[i] \notin Tags})
            IN  [k \in 1..Len(at) |-> doc[at[k]]]
    IN  [r \in 1..Len(rowTo) |->
            LET cellFrom == places(rowFrom[r], rowTo[r], {"<td>", "<th>"})
                cellTo == places(rowFrom[r], rowTo[r], {"</td>", "</th>"})
            IN  [c \in 1..Len(cellTo) |-> textOf(cellFrom[c], cellTo[c])]]

\* the event rows the user sees: the table is shown only when the component is
\* neither loading nor in error
DisplayedEvents == IF View = "table" THEN filteredEvents ELSE <<>>

----------------------------------------------------------------------------
(* Claims *)

\* the step stays within one Calendar instance: the page neither creates nor
\* destroys the component in it
SameInstance == ~(pc' # pc /\ pc' \in {"created", "absent"})

\* C1: in every reachable state of the component, filteredEvents is exactly the
\* sub-list of the events the last successful fetch returned that match the
\* current searchQuery and selectedType; nothing of an earlier fetch survives.
C1_VisibleIsFilterOfLastFetch ==
    filteredEvents = Matching(returned, searchQuery, selectedType)

\* two fetches have succeeded one after the other, and the filter hides a part
\* of what the last one returned
C1_Witness ==
    /\ calls = {}
    /\ issued >= 2
    /\ error = None
    /\ Len(returned) = 2
    /\ Len(filteredEvents) = 1

\* C2: in every reachable state at most one call of getCalendarEvents is in
\* flight, that is, has sent its request and has not got the answer yet
C2_AtMostOneInFlight == Cardinality({call \in calls : call.sent}) <= 1

\* C3: a call made while the token is absent (null or empty) sends no request,
\* and when it settles loadEvents sets error to 'No access token available'.
C3_NoTokenFailsBeforeRequest ==
    [][ SameInstance =>
        /\ (issued' = issued + 1 /\ (accessToken = None \/ accessToken = Some("")))
           => (requests' = requests /\ request' = request)
        /\ \A call \in calls :
             (~call.sent /\ calls' = calls \ {call})
             => (error' = Some("No access token available") /\ requests' = requests)
      ]_vars

\* both initial calls were made with an empty-string token and have settled with
\* the authentication error; no request was ever sent
C3_Witness ==
    /\ accessToken = Some("")
    /\ issued >= 2
    /\ calls = {}
    /\ requests = 0
    /\ error = Some(NoTokenMessage)
    /\ ~loading

\* C4: for every non-success response the error is the endpoint's message when
\* there is one, and 'Failed to fetch calendar events' otherwise.
C4_NonSuccessGivesMessageOrFallback ==
    [][ \A call \in calls, resp \in Responses :
          (~resp.ok /\ ReadBody(call, resp))
          => error' = IF resp.body = "object" /\ resp.message \notin {None, Some("")}
                      THEN resp.message
                      ELSE Some("Failed to fetch calendar events")
      ]_vars

\* C5: a call sends at most one request; a request is sent only by a step that
\* is a trigger (creation, mount, a changed date bound); the step that settles a
\* call sends nothing and starts no call, and a failure reaches the caller, who
\* records it in error.
C5_SingleRequestNoRetry ==
    [][ SameInstance =>
        /\ requests' - requests <= issued' - issued
        /\ issued' - issued <= 1
        /\ requests' >= requests
        /\ requests' # requests
           => (pc' # pc \/ startDate' # startDate \/ endDate' # endDate)
        /\ \A call \in calls :
             SettlesFailed(call)
             => /\ requests' = requests
                /\ issued' = issued
                /\ calls' = calls \ {call}
                /\ error' # None
      ]_vars

\* the two initial calls sent one request each, both failed, and nothing is in
\* flight: no request was added for the failures
C5_Witness ==
    /\ issued = 2
    /\ requests = 2
    /\ calls = {}
    /\ returned = <<>>
    /\ error # None
    /\ error # Some(NoTokenMessage)

\* C6: the step in which a fetch fails sets error to a non-empty message and
\* loading to false, leaves events and filteredEvents as they were, and the
\* markup then shows the error state.
C6_FailureKeepsEvents ==
    [][ \A call \in calls :
          SettlesFailed(call)
          => /\ error' # None
             /\ error' # Some("")
             /\ loading' = FALSE
             /\ events' = events
             /\ filteredEvents' = filteredEvents
             /\ View' = "error"
      ]_vars

\* a fetch has failed after an earlier one had delivered events: the error is
\* shown and the earlier events are still there
C6_Witness ==
    /\ error # None
    /\ ~loading
    /\ events # <<>>
    /\ filteredEvents # <<>>
    /\ View = "error"

\* C7: the result of filterEvents is a subsequence of events: its elements are
\* elements of events, in the same relative order, none used twice.
C7_ResultIsSubsequence ==
    pc \in {"filtered", "refiltered"} => IsSubsequence(filteredEvents, events)

\* a query that is not blank dropped an event and kept the last one
C7_Witness ==
    /\ pc = "filtered"
    /\ Len(events) >= 2
    /\ Len(filteredEvents) >= 1
    /\ Len(filteredEvents) < Len(events)
    /\ filteredEvents[Len(filteredEvents)] = events[Len(events)]
    /\ ~Blank(searchQuery)

\* C8: the text predicate holds exactly when the query is blank or the
\* lower-cased query occurs in the lower-cased title, description or location.
C8_TextPredicate ==
    /\ \A i \in 1..Len(events) :
         matchesSearch(events[i], searchQuery) <=> TextRule(events[i], searchQuery)
    /\ (pc = "filtered" /\ selectedType = "all")
       => filteredEvents = SelectSeq(events, LAMBDA e : TextRule(e, searchQuery))

\* a query with an upper-case letter kept an event that matches by its location
\* only, and dropped an event none of whose fields holds the query
C8_Witness ==
    /\ pc = "filtered"
    /\ selectedType = "all"
    /\ searchQuery = <<"A">>
    /\ Len(events) = 2
    /\ events[1].summary = Some(<<>>) /\ events[1].location = Some(<<"b">>)
    /\ events[2].summary = None /\ events[2].description = None
    /\ events[2].location = Some(<<"a", " ">>)
    /\ filteredEvents = <<events[2]>>

\* C9: the type predicate holds exactly when the selector is 'all', or equals
\* the event's type, or is 'default' and the event has no type; an event with
\* no type is kept under 'default' and dropped under every other specific selector.
C9_TypePredicate ==
    /\ \A i \in 1..Len(events) :
         /\ matchesType(events[i], selectedType) <=> TypeRule(events[i], selectedType)
         /\ events[i].eventType = None
            => (matchesType(events[i], selectedType)
                <=> selectedType \in {"all", "default"})
    /\ (pc = "filtered" /\ Blank(searchQuery))
       => filteredEvents = SelectSeq(events, LAMBDA e : TypeRule(e, selectedType))

\* under 'default' an event with no type was kept and a birthday event dropped
C9_Witness ==
    /\ pc = "filtered"
    /\ selectedType = "default"
    /\ searchQuery = <<>>
    /\ Len(events) = 2
    /\ events[1].eventType = Some("birthday")
    /\ events[2].eventType = None
    /\ filteredEvents = <<events[2]>>

\* C10: filtering the filtered result again with the same criteria gives the
\* same result.
C10_Idempotent ==
    pc = "refiltered" => filteredEvents = events

\* a filter that dropped one of two events was applied again and kept the rest
C10_Witness ==
    /\ pc = "refiltered"
    /\ Len(filteredEvents) = 1
    /\ ~Blank(searchQuery)
    /\ selectedType = "default"

\* C11: with an empty query and the selector 'all', filterEvents returns the
\* event list unchanged: same elements, same length, same order.
C11_NoFilterKeepsAll ==
    (pc = "filtered" /\ searchQuery = <<>> /\ selectedType = "all")
    => filteredEvents = events

\* two events, the first with no title, description or location, went through
\* the filter with an empty query and 'all', and both came out
C11_Witness ==
    /\ pc = "filtered"
    /\ searchQuery = <<>>
    /\ selectedType = "all"
    /\ Len(events) = 2
    /\ events[1].summary = None
    /\ events[1].description = None
    /\ events[1].location = None
    /\ events[2].summary # None
    /\ filteredEvents = events

\* C12: when the component is neither loading nor in error and filteredEvents
\* is empty, 'No events found matching your filters.' is shown exactly when the
\* query is not blank or the selector is not 'all', and 'No events found for
\* the selected date range.' exactly when no filter is active.
C12_EmptyMessageTellsFilters ==
    View = "empty"
    => /\ EmptyMessage = "No events found matching your filters."
          <=> (~Blank(searchQuery) \/ selectedType # "all")
       /\ EmptyMessage = "No events found for the selected date range."
          <=> (Blank(searchQuery) /\ selectedType = "all")

\* C13: whenever exportToCSV or exportToPDF is invoked, the exported rows are
\* the rows of the events the component displays at that moment, in the same
\* order; while the spinner or the error is shown no event row is displayed.
C13_ExportsWhatIsDisplayed ==
    [][ /\ exportToCSV
           => Tail(CsvRecords(download'[1].content))
              = [i \in 1..Len(DisplayedEvents) |-> RowRule(DisplayedEvents[i])]
        /\ (exportToPDF(TRUE) /\ written' # None)
           => Tail(TableOf(written'[1]))
              = [i \in 1..Len(DisplayedEvents) |->
                    SubSeq(RowRule(DisplayedEvents[i]), 1, 5)]
      ]_vars

\* C14 as stated: the CSV text of a filtered list of length n has exactly n+1
\* lines, the header and one line of 6 fields per event.
C14_LinesAsStated ==
    download # None
    => LET records == CsvRecords(download[1].content)
       IN  /\ LineCount(download[1].content) = Len(filteredEvents) + 1
           /\ records[1] = HeaderNames
           /\ \A i \in 1..Len(filteredEvents) : Len(records[i + 1]) = 6

\* C14: the CSV text of a filtered list of length n holds exactly n+1 records
\* separated by line feeds: the header Title, Start, End, Location, Type,
\* Description, then one record per filtered event in the order of
\* filteredEvents, each of exactly 6 fields in the order of the header; a field
\* that holds a line feed keeps it inside its double quotes.
C14_HeaderAndOneRecordPerEvent ==
    download # None
    => LET records == CsvRecords(download[1].content)
       IN  /\ Len(records) = Len(filteredEvents) + 1
           /\ records[1] = HeaderNames
           /\ \A i \in 1..Len(filteredEvents) :
                /\ Len(records[i + 1]) = 6
                /\ records[i + 1] = RowRule(filteredEvents[i])

\* two events were exported, the first with a line feed in its description
C14_Witness ==
    /\ download # None
    /\ Len(filteredEvents) = 2
    /\ filteredEvents[1].description = Some(<<"a", "\n", "b">>)
    /\ filteredEvents[2].summary = None
    /\ LineCount(download[1].content) = 4
    /\ Len(CsvRecords(download[1].content)) = 3

\* C15: in every CSV row a missing title reads 'Untitled Event', a missing
\* location 'No location', a missing type 'Default', a missing start or end
\* 'N/A'; a field that is there reads as its own value, never as a fallback.
C15_Fallbacks ==
    download # None
    => LET records == CsvRecords(download[1].content)
       IN  \A i \in 1..Len(filteredEvents) :
             LET e == filteredEvents[i]
                 r == records[i + 1]
                 noWhen(w) == w = None \/ (w[1].dateTime = None /\ w[1].date = None)
             IN  /\ r[1] = IF Missing(e.summary) THEN <<"Untitled Event">>
                           ELSE e.summary[1]
                 /\ r[4] = IF Missing(e.location) THEN <<"No location">>
                           ELSE e.location[1]
                 /\ r[5] = IF e.eventType \in {None, Some("")} THEN <<"Default">>
                           ELSE e.eventType
                 /\ noWhen(e.start) <=> r[2] = <<"N/A">>
                 /\ noWhen(e.end) <=> r[3] = <<"N/A">>
                 /\ ~noWhen(e.start) => r[2] = WhenRule(e.start)
                 /\ ~noWhen(e.end) => r[3] = WhenRule(e.end)

\* an event with no title, an empty location and an empty type was exported
\* after an event that has them all and a start, but an end object without a value
C15_Witness ==
    /\ download # None
    /\ Len(filteredEvents) = 2
    /\ filteredEvents[1].summary # None
    /\ filteredEvents[1].eventType = Some("default")
    /\ filteredEvents[1].start # None
    /\ filteredEvents[1].end = When(None, None)
    /\ filteredEvents[2].summary = None
    /\ filteredEvents[2].location = Some(<<>>)
    /\ CsvRecords(download[1].content)[3][1] = <<"Untitled Event">>
    /\ CsvRecords(download[1].content)[2][3] = <<"N/A">>

\* C16: every field value of the CSV output is wrapped in double quotes with
\* each double quote inside it doubled, fields are joined by commas and rows by
\* line feeds; the row of an event titled A"B with no location and no type has
\* the title field "A""B", the location field "No location" and the type field
\* "Default".
C16_Quoting ==
    download # None
    => /\ download[1].content
          = Joined(<<Joined(HeaderNames, ",")>>
                   \o [i \in 1..Len(filteredEvents) |-> LineRule(filteredEvents[i])],
                   "\n")
       /\ \A i \in 1..Len(filteredEvents) :
            LET e == filteredEvents[i]
            IN  ( /\ e.summary = Some(<<"A", "\"", "B">>)
                  /\ e.location = None
                  /\ e.eventType = None
                  /\ e.start = None /\ e.end = None /\ e.description = None
                  /\ Len(filteredEvents) = 1 )
                => download[1].content
                   = Joined(HeaderNames, ",")
                     \o << "\n",
                           "\"", "A", "\"", "\"", "B", "\"", ",",
                           "\"", "N/A", "\"", ",",
                           "\"", "N/A", "\"", ",",
                           "\"", "No location", "\"", ",",
                           "\"", "Default", "\"", ",",
                           "\"", "\"" >>

\* the event titled A"B, with no location and no type, was exported alone
C16_Witness ==
    /\ download # None
    /\ Len(filteredEvents) = 1
    /\ filteredEvents[1].summary = Some(<<"A", "\"", "B">>)
    /\ filteredEvents[1].location = None
    /\ filteredEvents[1].eventType = None

\* C17: the start and the end of every event read the same in the table, the
\* CSV and the print document: date and time for a date-time, the date alone
\* for a date-only value, 'N/A' for an absent one, the date-time when both are
\* there; a date-only and a date-time start of the same day never read the same.
C17_WhenFormats ==
    LET n == Len(filteredEvents)
        shown == tableRows(filteredEvents, zone)
        rule(i) == <<WhenRule(filteredEvents[i].start), WhenRule(filteredEvents[i].end)>>
    IN  /\ View = "table" => \A i \in 1..n : <<shown[i][2], shown[i][3]>> = rule(i)
        /\ download # None
           => \A i \in 1..n :
                LET r == CsvRecords(download[1].content)[i + 1]
                IN  <<r[2], r[3]>> = rule(i)
        /\ written # None
           => \A i \in 1..n :
                LET r == TableOf(written[1])[i + 1]
                IN  <<r[2], r[3]>> = rule(i)
        /\ \A i, j \in 1..n :
             LET a == filteredEvents[i].start
                 b == filteredEvents[j].start
             IN  ( /\ a # None /\ a[1].dateTime # None
                   /\ b # None /\ b[1].dateTime = None /\ b[1].date # None
                   /\ a[1].dateTime[1] \div 24 = b[1].date[1] )
                 => /\ shown[i][2] # shown[j][2]
                    /\ shown[j][2] = SubSeq(shown[i][2], 1, Len(shown[j][2]))
                    /\ Len(shown[i][2]) > Len(shown[j][2])

\* a date-time start and a date-only start of the same day were shown, exported
\* and printed
C17_Witness ==
    /\ View = "table"
    /\ download # None
    /\ written # None
    /\ Len(filteredEvents) = 2
    /\ filteredEvents[1].start = When(Some(10), None)
    /\ filteredEvents[2].start = When(None, Some(0))

\* C18: the table of the print document has the 5 columns Title, Start, End,
\* Location, Type and one row per filtered event in the order of
\* filteredEvents, and the five cells of a row read as the first five CSV
\* fields of the same event.
C18_PrintedAsExported ==
    (written # None /\ download # None)
    => LET table == TableOf(written[1])
           records == CsvRecords(download[1].content)
       IN  /\ Len(table) = Len(filteredEvents) + 1
           /\ table[1] = SubSeq(HeaderNames, 1, 5)
           /\ \A i \in 1..Len(filteredEvents) :
                table[i + 1] = SubSeq(records[i + 1], 1, 5)

\* C19: when window.open gives no window, exportToPDF writes no document, does
\* not call print, does not set error, and leaves events, filteredEvents, the
\* filter criteria, the date bounds and loading as they were.
C19_BlockedPopupIsSilent ==
    [][ exportToPDF(FALSE)
        => /\ written' = written
           /\ printed' = printed
           /\ download' = download
           /\ error' = error
           /\ events' = events
           /\ filteredEvents' = filteredEvents
           /\ searchQuery' = searchQuery
           /\ selectedType' = selectedType
           /\ startDate' = startDate
           /\ endDate' = endDate
           /\ loading' = loading
      ]_vars

\* the first print export ever was blocked while events were shown: nothing
\* was written or printed and no error is set
C19_Witness ==
    /\ popup = "blocked"
    /\ written = None
    /\ ~printed
    /\ error = None
    /\ View = "table"

\* C20: after setToday both date bounds are the current date, and the fetch it
\* triggers asks for a window that is not empty (timeMin before timeMax) and
\* covers the whole current day.
C20_TodayCoversTheDay ==
    [][ setToday
        => LET today == (now + zone) \div 24
           IN  /\ startDate' = Some(today)
               /\ endDate' = Some(today)
               /\ requests' = requests + 1
                  => /\ request'[1].timeMin < request'[1].timeMax
                     /\ request'[1].timeMin <= today * 24 - zone
                     /\ request'[1].timeMax >= (today + 1) * 24 - zone
      ]_vars

\* C22: a fetch is issued whenever a date bound is set to a new value and a
\* bound is not empty; on first load the fetch for the default bounds is
\* issued twice, by the date block and by the mount; a change of the search
\* query or of the type selector issues no fetch.
C22_FetchTriggers ==
    [][ SameInstance =>
        /\ (startDate' # startDate \/ endDate' # endDate)
           => issued' = IF startDate' # None \/ endDate' # None
                        THEN issued + 1 ELSE issued
        /\ (searchQuery' # searchQuery \/ selectedType' # selectedType)
           => (issued' = issued /\ requests' = requests /\ calls' = calls)
        /\ (pc = "created" /\ pc' # pc)
           => (issued = 0 /\ issued' = 1)
        /\ (pc = "updated" /\ pc' # pc)
           => /\ issued' = 2
              /\ startDate' = startDate /\ endDate' = endDate
              /\ requests' = requests + 1 => request' = request
      ]_vars

\* after the two initial fetches the user typed a query, which issued nothing,
\* and cleared the start date, which issued the third fetch
C22_Witness ==
    /\ pc = "mounted"
    /\ issued = 3
    /\ requests = 3
    /\ searchQuery # <<>>
    /\ startDate = None
    /\ endDate # None

\* C27: in every reachable state loading is true exactly when a fetch started
\* by loadEvents has not completed yet.
C27_LoadingTracksFetches == loading <=> calls # {}

\* C23: no action of the user (a change of the query, of the type or of a date
\* bound, opening or closing the details modal, an export) changes the events
\* list, nor does a fetch that fails; the list changes only in the step in
\* which a fetch completes with a result, and is then that result, whole.
C23_EventsImmutable ==
    [][ /\ events' # events
           => /\ \E call \in calls : call.sent /\ calls' = calls \ {call}
              /\ events' = returned'
              /\ error' = error
        /\ ( \/ searchQuery' # searchQuery \/ selectedType' # selectedType
             \/ startDate' # startDate \/ endDate' # endDate
             \/ modal' # modal \/ exports' # exports
             \/ (error' # error /\ error' # None) )
           => events' = events
      ]_vars

C23_Witness ==
    /\ showModal /\ selectedEvent # None
    /\ download # None /\ popup = "opened"
    /\ selectedType = "birthday" /\ searchQuery # <<>>
    /\ startDate = endDate
    /\ Len(events) = 2 /\ Len(filteredEvents) = 1

\* how the call issued last has ended, once it has
LatestEnded == latest # NotFollowed /\ latest # Followed(None)
LatestResult == latest[1][1]

\* C28: whenever no fetch is in flight and the fetch issued last succeeded,
\* events is the result of that fetch: the answer to an older fetch never
\* replaces the result of a newer one.
C28_LatestRequestWins ==
    (calls = {} /\ LatestEnded /\ LatestResult.ok) => events = LatestResult.value

\* C29: whenever no fetch is in flight, error is set exactly when the fetch
\* issued last failed.
C29_ErrorIsOfLatest ==
    (calls = {} /\ LatestEnded) => (error # None <=> ~LatestResult.ok)

\* C30: under the assumption that every request is answered or fails, a state
\* in which loading is true leads to a state in which loading is false and no
\* fetch is in flight.
C30_FetchesComplete == loading ~> (~loading /\ calls = {})

C30_Witness ==
    /\ ~loading /\ calls = {} /\ issued = MaxFetches
    /\ LatestEnded /\ ~LatestResult.ok
    /\ events # <<>>

\* the token a sign-in of this session delivered is in the store and in storage
SignedIn ==
    /\ accessToken \in {Some(t) : t \in SignInTokens}
    /\ storage = accessToken

\* C21: once a sign-in has succeeded the token stays present, in the store
\* and in storage, through every step that is not the completion of a
\* sign-out; and a fetch that starts sends the token the store holds then.
C21_TokenLifecycle ==
    [][ /\ (SignedIn /\ ~(signOuts' < signOuts))
           => (~NoToken(accessToken') /\ storage' # None)
        /\ (issued' = issued + 1 /\ requests' = requests + 1)
           => (request' # None /\ request'[1].token = accessToken)
      ]_vars

\* C24: at most one sign-in popup is in progress at any time, and the guard is
\* set exactly while it is: every outcome of the attempt releases it.
C24_LoginGuard ==
    /\ signIns <= 1
    /\ initialLoginInProgress <=> signIns = 1

C24_Witness ==
    /\ SignedIn /\ ~user
    /\ signIns = 1 /\ initialLoginInProgress

\* C25: the step in which handleLogout ends leaves the token absent from the
\* store and from storage, whether signOut was fulfilled or rejected.
C25_LogoutRemovesToken ==
    [][ signOuts' < signOuts => (accessToken' = None /\ storage' = None) ]_vars

\* C26: whenever no login or logout handler is waiting for its call to
\* settle, the store and the storage entry hold the same value.
C26_StoreAgreesWithStorage ==
    (signIns = 0 /\ signOuts = 0) => accessToken = storage

C26_Witness ==
    /\ signIns = 0 /\ signOuts = 0
    /\ SignedIn /\ user
    /\ pc = "mounted" /\ events # <<>>

====
